---- MODULE Spec2Model ----
(***************************************************************************)
(* Model of phenopype.core.preprocessing.detect_reference: the reference   *)
(* card locator.  One call is a walk through the function body (load, the  *)
(* "while True" block, histogram equalization, return); containers keep     *)
(* their attributes between calls.                                          *)
(*                                                                          *)
(* Numbers: px-mm ratios are held in tenths (25 is 2.5 px/mm), which is the *)
(* precision round(x, 1) keeps.  Scales and coordinates are exact rationals *)
(* <<n, d>>; floating point error of the cv2 primitives is not modelled.    *)
(* AKAZE/knnMatch and findHomography are external primitives: an image      *)
(* carries the number of good matches it yields against the template        *)
(* (feat) and the similarity (scale k, offset pos) the homography returns.  *)
(***************************************************************************)
EXTENDS Integers, Sequences, FiniteSets, TLC

(* ------------------------------ bounds -------------------------------- *)
MaxCalls == 3
MaxGood == 2

(* --------------------------- optional values -------------------------- *)
None == [t |-> "None", v |-> 0]
Absent == [t |-> "absent", v |-> 0]
Unbound == [t |-> "unbound", v |-> 0]
Some(x) == [t |-> "val", v |-> x]
IsVal(o) == o.t = "val"

(* ------------------------------ rationals ----------------------------- *)
RECURSIVE GCD(_, _)
GCD(a, b) == IF b = 0 THEN a ELSE GCD(b, a % b)
Abs(x) == IF x < 0 THEN -x ELSE x
Rat(n, d) ==
    LET g == GCD(Abs(n), Abs(d))
        s == IF d < 0 THEN -1 ELSE 1
    IN  IF n = 0 THEN <<0, 1>> ELSE <<s * (n \div g), s * (d \div g)>>
RInt(i) == <<i, 1>>
RMul(p, q) == Rat(p[1] * q[1], p[2] * q[2])
RDiv(p, q) == Rat(p[1] * q[2], p[2] * q[1])
RAdd(p, q) == Rat(p[1] * q[2] + q[1] * p[2], p[2] * q[2])
RPos(p) == p[1] > 0
\* numpy astype(np.int32) of a float: truncation toward zero
Trunc(p) == IF p[1] >= 0 THEN p[1] \div p[2] ELSE -((-p[1]) \div p[2])
\* cvRound / Python round: round half to even
RoundHalfEven(p) ==
    LET n == Abs(p[1])
        f == n \div p[2]
        r2 == 2 * (n % p[2])
        m == IF r2 > p[2] THEN f + 1
             ELSE IF r2 < p[2] THEN f
             ELSE IF f % 2 = 0 THEN f ELSE f + 1
    IN  IF p[1] >= 0 THEN m ELSE -m

RECURSIVE SqrtSearch(_, _, _)
SqrtSearch(n, lo, hi) ==
    IF lo >= hi THEN lo
    ELSE LET mid == (lo + hi + 1) \div 2
         IN  IF mid * mid <= n THEN SqrtSearch(n, mid, hi)
             ELSE SqrtSearch(n, lo, mid - 1)
ISqrt(n) == SqrtSearch(n, 0, IF n < 46340 THEN n ELSE 46340)

(* ------------------------- images and templates ----------------------- *)
\* image.shape[0] = h, image.shape[1] = w.  k, pos: where the homography
\* primitive puts the template in this image (x |-> k * x + pos); feat: the
\* number of knn matches that pass the ratio test against the template;
\* eq: the colour histograms have been matched to the template's.
Img(h, w, k, pos, feat, eq) ==
    [t |-> "img", h |-> h, w |-> w, k |-> k, pos |-> pos, feat |-> feat, eq |-> eq]
Tpl(h, w) == [t |-> "img", h |-> h, w |-> w]
NoImage == [t |-> "None", h |-> 0, w |-> 0]

Half == <<1, 2>>
Origin == <<RInt(0), RInt(0)>>
Offset == <<RInt(1), RInt(2)>>
CardSet == {<<RInt(1), Origin>>, <<Half, Offset>>, <<RInt(2), Offset>>}
ImageSet ==
    {Img(8, 8, RInt(1), Origin, f, FALSE) : f \in 0..MaxGood}
    \cup {Img(8, 8, c[1], c[2], MaxGood, FALSE) : c \in CardSet}
    \cup {Img(0, 8, RInt(1), Origin, MaxGood, FALSE)}
    \cup {Img(d[1], d[2], RInt(2), Offset, MaxGood, FALSE) :
            d \in {<<5000, 5000>>, <<5002, 5000>>}}
\* (reference_template_px_mm_ratio, reference_template_image) of a container
ReferenceSet ==
    {<<Absent, Tpl(2, 4)>>, <<Some(25), NoImage>>, <<Some(0), Tpl(2, 4)>>,
     <<Some(25), Tpl(2, 4)>>, <<Some(25), Tpl(3, 3)>>, <<Some(25), Tpl(0, 3)>>}
MinMatchesSet == 1..MaxGood
ResizeSet == {RInt(0), <<1, 4>>, RInt(1), RInt(2)}

(* ------------------------------ DataFrames ---------------------------- *)
\* df_image_data: the columns the function reads or writes
ImageData(fname, tpl, cur) ==
    [filename |-> fname, template_px_mm_ratio |-> tpl, current_px_mm_ratio |-> cur]
\* df_masks: a sequence of rows (mask, include, coords)
OtherRow ==
    [mask |-> "mask1", include |-> TRUE,
     coords |-> << <<<<0, 0>>, <<0, 1>>, <<1, 1>>, <<1, 0>>, <<0, 0>>>> >>]
\* what stands for "the container has no df_masks attribute" / "df_masks=None"
NoFrame == <<[mask |-> "None", include |-> FALSE, coords |-> <<>>]>>
\* what stands for "df_image_data=None"
NoData == ImageData("None", Absent, Absent)
EmptyMasks == <<>>
HasReference(masks) == \E i \in 1..Len(masks) : masks[i].mask = "reference"

(* ------------------------------- state -------------------------------- *)
VARIABLES
    objs,      \* the containers: c |-> its attributes
    ncalls,    \* calls made so far
    pc,        \* position of the running call
    kind,      \* obj_input.__class__.__name__
    cid,       \* the container passed as obj_input
    args,      \* the keyword arguments of the call
    pre,       \* the container's attributes when the call started
    image, df_image_data, df_masks,
    template_px_mm_ratio, template_image,
    detected_px_mm_ratio, rect_new, resize_factor, good,
    iter,      \* passes through the body of "while True"
    steps,     \* the steps this call has executed
    exc,       \* the exception that ended the call
    ret,       \* the value returned to the caller
    hist,      \* completed calls, as kept by an observer
    watch      \* whether an observer keeps hist

locals == <<image, df_image_data, df_masks, template_px_mm_ratio, template_image,
            detected_px_mm_ratio, rect_new, resize_factor, good>>
vars == <<objs, ncalls, pc, kind, cid, args, pre, locals, iter, steps, exc, ret, hist, watch>>

NoRet == [t |-> "none"]
Container(img, data, ratio, tpl, masks, det) ==
    [image |-> img, image_copy |-> img, df_image_data |-> data,
     reference_template_px_mm_ratio |-> ratio, reference_template_image |-> tpl,
     df_masks |-> masks, reference_detected_px_mm_ratio |-> det]
FreshContainers ==
    {Container(i, ImageData("img", Absent, Absent), r[1], r[2], m, Absent) :
        i \in ImageSet, r \in ReferenceSet, m \in {NoFrame, <<OtherRow>>}}

InitCall ==
    /\ ncalls = 0 /\ pc = "idle" /\ kind = "none" /\ cid = 0
    /\ args = [overwrite |-> FALSE, equalize |-> FALSE, min_matches |-> 1,
               resize |-> RInt(1), template |-> NoImage, px_mm_ratio_ref |-> None]
    /\ image = NoImage /\ df_image_data = ImageData("unknown", Absent, Absent)
    /\ df_masks = EmptyMasks
    /\ template_px_mm_ratio = None /\ template_image = NoImage
    /\ detected_px_mm_ratio = Unbound /\ rect_new = <<>>
    /\ resize_factor = RInt(1) /\ good = 0
    /\ iter = 0 /\ steps = {} /\ exc = "none" /\ ret = NoRet /\ hist = {}

Init ==
    /\ objs \in [{1} -> FreshContainers]
    /\ pre = objs[1]
    /\ watch = FALSE
    /\ InitCall

(* ----------------------- the steps as pure functions ------------------ *)
AutoDiameter == 5000
\* line 418: (image.shape[0] + image.shape[1]) / 2 > 5000 and resize == 1
AutoResizeAtLeast(img, resize) == img.h + img.w >= 2 * AutoDiameter /\ resize = RInt(1)
AutoResize(img, resize) == img.h + img.w > 2 * AutoDiameter /\ resize = RInt(1)
ResizeFactor(img, resize) == IF AutoResize(img, resize) THEN Half ELSE resize
\* cv2.resize(image, (0, 0), fx=f, fy=f): the size is cvRound(shape * f)
ResizedDim(d, f) == RoundHalfEven(RMul(RInt(d), f))
ResizeRaises(img, f) ==
    \/ ~RPos(f)
    \/ img.h = 0 \/ img.w = 0
    \/ ResizedDim(img.h, f) = 0 \/ ResizedDim(img.w, f) = 0
CvResize(img, f) ==
    [img EXCEPT !.h = ResizedDim(img.h, f), !.w = ResizedDim(img.w, f),
                !.k = RMul(img.k, f),
                !.pos = <<RMul(img.pos[1], f), RMul(img.pos[2], f)>>]
\* akaze.detectAndCompute asserts a non-empty image
FeaturesRaise(tpl) == tpl.h = 0 \/ tpl.w = 0
\* lines 434-440: the matches with m.distance < 0.7 * n.distance
GoodMatches(tpl, img) == img.feat
EnoughMatchesOffByOne(n, min_matches) == n + 1 >= min_matches
\* line 443
EnoughMatches(n, min_matches) == n >= min_matches
\* line 447: the homography of the (resized) image
FindHomography(tpl, img) == [k |-> img.k, pos |-> img.pos]
\* lines 450-458
RectOld(tpl) == <<<<0, 0>>, <<0, tpl.h>>, <<tpl.w, tpl.h>>, <<tpl.w, 0>>>>
PerspectiveTransform(rect, M) ==
    [i \in 1..Len(rect) |->
        <<RAdd(RMul(M.k, RInt(rect[i][1])), M.pos[1]),
          RAdd(RMul(M.k, RInt(rect[i][2])), M.pos[2])>>]
RescaleOmitted(rect, f) == rect
\* line 459: cv2.perspectiveTransform(rect_old, M) / resize_factor
Rescale(rect, f) == [i \in 1..Len(rect) |-> <<RDiv(rect[i][1], f), RDiv(rect[i][2], f)>>]
\* line 462: rect_new.astype(np.int32)
AsInt32(rect) == [i \in 1..Len(rect) |-> <<Trunc(rect[i][1]), Trunc(rect[i][2])>>]
RectNew(tpl, img, f) ==
    AsInt32(Rescale(PerspectiveTransform(RectOld(tpl), FindHomography(tpl, img)), f))
\* cv2.minEnclosingCircle: the squared diameter.  The quadrilaterals here are
\* axis-parallel rectangles, whose smallest enclosing circle has the longest
\* diagonal as its diameter.
Dist2(p, q) == (p[1] - q[1]) * (p[1] - q[1]) + (p[2] - q[2]) * (p[2] - q[2])
Diameter2(rect) ==
    LET ds == {Dist2(rect[i], rect[j]) : i, j \in 1..Len(rect)}
    IN  CHOOSE d \in ds : \A e \in ds : e <= d
\* round(r * sqrt(n / d)) to the nearest integer, halves to the even one
RoundScaled(r, n, d) ==
    LET v == 4 * r * r * n
        q == v \div d
        s == ISqrt(q)
        tie == s % 2 = 1 /\ s * s * d = v
        lo == s \div 2
        m == IF tie THEN (IF lo % 2 = 0 THEN lo ELSE lo + 1) ELSE (s + 1) \div 2
    IN  IF r >= 0 THEN m ELSE -m
\* lines 463-473: round(diameter_new / diameter_old * template_px_mm_ratio, 1),
\* in tenths
PxMmRatioNew(rnew, rold, ratio) == RoundScaled(ratio, Diameter2(rnew), Diameter2(rold))

\* lines 487-488: _convert_arr_tup_list(rect_new), then coords.append(coords[0])
ConvertArrTupList(arr) == [i \in 1..Len(arr) |-> <<arr[i][1], arr[i][2]>>]
CoordsOpen(rnew) == ConvertArrTupList(rnew)
Coords(rnew) == LET c == ConvertArrTupList(rnew) IN Append(c, c[1])
\* lines 489-501: drop an earlier reference row, append the new one
DropReference(masks) == SelectSeq(masks, LAMBDA row : row.mask # "reference")
RowReference(coords) == [mask |-> "reference", include |-> FALSE, coords |-> <<coords>>]
AddReferenceKeepingOld(masks, coords) == Append(masks, RowReference(coords))
AddReference(masks, coords) ==
    Append(IF HasReference(masks) THEN DropReference(masks) ELSE masks,
           RowReference(coords))
\* line 528: _equalize_histogram(image, detected_rect_mask, template_image)
EqualizeHistogram(img, rect, tpl) == [img EXCEPT !.eq = TRUE]
\* hasattr(obj_input, "reference_detected_px_mm_ratio")
HasDetected(k, c) ==
    k = "container" /\ objs[c].reference_detected_px_mm_ratio # Absent
\* lines 401-406
InfoMissing(ratio, tpl) == ratio = None \/ tpl = NoImage
AlreadyDetectedAnyOverwrite(k, c, overwrite) == HasDetected(k, c)
\* line 409
AlreadyDetected(k, c, overwrite) == HasDetected(k, c) /\ ~overwrite

(* ------------------------------ observer ------------------------------ *)
ReferencePolygons(masks) ==
    {masks[i].coords : i \in {j \in 1..Len(masks) : masks[j].mask = "reference"}}
CallRecord(outcome, ratio, masks) ==
    [kind |-> kind, obj |-> cid,
     template |-> template_image, template_ratio |-> template_px_mm_ratio,
     target |-> pre.image, args |-> args,
     fresh |-> pre.reference_detected_px_mm_ratio = Absent,
     outcome |-> outcome, ratio |-> ratio,
     polygon |-> IF rect_new = <<>> THEN <<>> ELSE Coords(rect_new),
     masks |-> ReferencePolygons(masks)]
Observe(outcome, ratio, masks) ==
    hist' = IF watch THEN hist \cup {CallRecord(outcome, ratio, masks)} ELSE hist

(* ------------------------------ the call ------------------------------ *)
CanCall == pc \in {"idle", "done", "raised"} /\ ncalls < MaxCalls
Arguments(ow, eq, mm, rs, tmpl, pxref) ==
    [overwrite |-> ow, equalize |-> eq, min_matches |-> mm, resize |-> rs,
     template |-> tmpl, px_mm_ratio_ref |-> pxref]
\* lines 370-376, 387-397
CallContainer(c, ow, eq, mm, rs) ==
    /\ CanCall
    /\ ncalls' = ncalls + 1
    /\ kind' = "container" /\ cid' = c /\ pre' = objs[c]
    /\ args' = Arguments(ow, eq, mm, rs, NoImage, None)
    /\ image' = objs[c].image
    /\ df_image_data' = objs[c].df_image_data
    /\ template_px_mm_ratio' =
          IF objs[c].reference_template_px_mm_ratio = Absent THEN None
          ELSE objs[c].reference_template_px_mm_ratio
    /\ template_image' = objs[c].reference_template_image
    /\ df_masks' = IF objs[c].df_masks = NoFrame THEN EmptyMasks ELSE objs[c].df_masks
    /\ detected_px_mm_ratio' = Unbound /\ rect_new' = <<>>
    /\ resize_factor' = RInt(1) /\ good' = 0
    /\ iter' = 0 /\ steps' = {"load"} /\ exc' = "none" /\ ret' = NoRet
    /\ pc' = "loop"
    /\ UNCHANGED <<objs, hist, watch>>

\* lines 370-386: the template and px_mm_ratio_ref arguments are not read
CallArray(img, dfd, dfm, ow, eq, mm, rs, tmpl, pxref) ==
    /\ CanCall
    /\ ncalls' = ncalls + 1
    /\ kind' = "ndarray" /\ cid' = 0
    /\ pre' = Container(img, dfd, Absent, NoImage, dfm, Absent)
    /\ args' = Arguments(ow, eq, mm, rs, tmpl, pxref)
    /\ image' = img
    /\ df_image_data' = IF dfd = NoData THEN ImageData("unknown", Absent, Absent) ELSE dfd
    /\ template_px_mm_ratio' =
          IF dfd # NoData /\ dfd.template_px_mm_ratio # Absent
          THEN dfd.template_px_mm_ratio ELSE None
    /\ template_image' = NoImage
    /\ df_masks' = IF dfm = NoFrame THEN EmptyMasks ELSE dfm
    /\ detected_px_mm_ratio' = Unbound /\ rect_new' = <<>>
    /\ resize_factor' = RInt(1) /\ good' = 0
    /\ iter' = 0 /\ steps' = {"load"} /\ exc' = "none" /\ ret' = NoRet
    /\ pc' = "loop"
    /\ UNCHANGED <<objs, hist, watch>>

\* lines 400-415: the head of the body of "while True"
CheckInfo ==
    /\ pc = "loop"
    /\ iter' = iter + 1
    /\ steps' = steps \cup {"check"}
    /\ IF InfoMissing(template_px_mm_ratio, template_image)
       THEN /\ pc' = "after"
            /\ UNCHANGED detected_px_mm_ratio
       ELSE IF AlreadyDetected(kind, cid, args.overwrite)
       THEN /\ detected_px_mm_ratio' = objs[cid].reference_detected_px_mm_ratio
            /\ pc' = "after"
       ELSE /\ pc' = "resize"
            /\ UNCHANGED detected_px_mm_ratio
    /\ UNCHANGED <<objs, ncalls, kind, cid, args, pre, image, df_image_data, df_masks,
                   template_px_mm_ratio, template_image, rect_new, resize_factor, good,
                   exc, ret, hist, watch>>

\* lines 417-427
Resize ==
    /\ pc = "resize"
    /\ steps' = steps \cup {"resize"}
    /\ resize_factor' = ResizeFactor(image, args.resize)
    /\ IF ResizeRaises(image, resize_factor')
       THEN /\ pc' = "raised" /\ exc' = "cv2.error"
            /\ Observe("cv2.error", Unbound, df_masks)
            /\ UNCHANGED image
       ELSE /\ image' = CvResize(image, resize_factor')
            /\ pc' = "features"
            /\ UNCHANGED <<exc, hist>>
    /\ UNCHANGED <<objs, ncalls, kind, cid, args, pre, df_image_data, df_masks,
                   template_px_mm_ratio, template_image, detected_px_mm_ratio,
                   rect_new, good, iter, ret, watch>>

\* lines 429-440
Match ==
    /\ pc = "features"
    /\ steps' = steps \cup {"features"}
    /\ IF FeaturesRaise(template_image)
       THEN /\ pc' = "raised" /\ exc' = "cv2.error"
            /\ Observe("cv2.error", Unbound, df_masks)
            /\ UNCHANGED good
       ELSE /\ good' = GoodMatches(template_image, image)
            /\ pc' = "decide"
            /\ UNCHANGED <<exc, hist>>
    /\ UNCHANGED <<objs, ncalls, kind, cid, args, pre, image, df_image_data, df_masks,
                   template_px_mm_ratio, template_image, detected_px_mm_ratio,
                   rect_new, resize_factor, iter, ret, watch>>

\* lines 443-503: the reference is found
Detect ==
    /\ pc = "decide"
    /\ EnoughMatches(good, args.min_matches)
    /\ steps' = steps \cup {"detect"}
    /\ rect_new' = RectNew(template_image, image, resize_factor)
    /\ LET px_mm_ratio_new ==
               PxMmRatioNew(rect_new', RectOld(template_image), template_px_mm_ratio.v)
       IN  /\ df_image_data' =
                  [df_image_data EXCEPT !.current_px_mm_ratio = Some(px_mm_ratio_new)]
           /\ detected_px_mm_ratio' = Some(px_mm_ratio_new)
    \* a container's df_image_data is the very object the call writes to
    /\ objs' = IF kind = "container"
               THEN [objs EXCEPT ![cid].df_image_data = df_image_data']
               ELSE objs
    /\ df_masks' = AddReference(df_masks, Coords(rect_new'))
    /\ pc' = "after"
    /\ UNCHANGED <<ncalls, kind, cid, args, pre, image, template_px_mm_ratio,
                   template_image, resize_factor, good, iter, exc, ret, hist, watch>>

\* lines 504-511: the reference is not found
NotFound ==
    /\ pc = "decide"
    /\ ~EnoughMatches(good, args.min_matches)
    /\ steps' = steps \cup {"notfound"}
    /\ detected_px_mm_ratio' = None
    /\ pc' = "after"
    /\ UNCHANGED <<objs, ncalls, kind, cid, args, pre, image, df_image_data, df_masks,
                   template_px_mm_ratio, template_image, rect_new, resize_factor, good,
                   iter, exc, ret, hist, watch>>

\* lines 519-529: rect_new is a local that only the found branch assigns
Equalize ==
    /\ pc = "after"
    /\ IF args.equalize
       THEN /\ steps' = steps \cup {"equalize"}
            /\ IF rect_new = <<>>
               THEN /\ pc' = "raised" /\ exc' = "UnboundLocalError"
                    /\ Observe("UnboundLocalError", Unbound, df_masks)
                    /\ UNCHANGED image
               ELSE /\ image' = EqualizeHistogram(image, rect_new, template_image)
                    /\ pc' = "return"
                    /\ UNCHANGED <<exc, hist>>
       ELSE /\ pc' = "return"
            /\ UNCHANGED <<steps, image, exc, hist>>
    /\ UNCHANGED <<objs, ncalls, kind, cid, args, pre, df_image_data, df_masks,
                   template_px_mm_ratio, template_image, detected_px_mm_ratio,
                   rect_new, resize_factor, good, iter, ret, watch>>

\* lines 531-540
Return ==
    /\ pc = "return"
    /\ steps' = steps \cup {"return"}
    /\ IF kind = "ndarray"
       THEN /\ ret' = [t |-> "tuple", df_image_data |-> df_image_data,
                       df_masks |-> df_masks, image |-> image]
            /\ pc' = "done"
            /\ Observe("returned", detected_px_mm_ratio, df_masks)
            /\ UNCHANGED <<objs, exc>>
       ELSE IF detected_px_mm_ratio = Unbound
       THEN \* lines 535-536 have run when line 537 reads the unassigned local
            /\ objs' = [objs EXCEPT ![cid].df_image_data = df_image_data,
                                    ![cid].df_masks = df_masks]
            /\ pc' = "raised" /\ exc' = "UnboundLocalError"
            /\ Observe("UnboundLocalError", Unbound, df_masks)
            /\ UNCHANGED ret
       ELSE /\ objs' =
                  [objs EXCEPT
                     ![cid].df_image_data = df_image_data,
                     ![cid].df_masks = df_masks,
                     ![cid].reference_detected_px_mm_ratio = detected_px_mm_ratio,
                     ![cid].image = IF args.equalize THEN image ELSE @,
                     ![cid].image_copy = IF args.equalize THEN image ELSE @]
            /\ ret' = [t |-> "None"]
            /\ pc' = "done"
            /\ Observe("returned", detected_px_mm_ratio, df_masks)
            /\ UNCHANGED exc
    /\ UNCHANGED <<ncalls, kind, cid, args, pre, locals, iter, watch>>

(* --------------------------- specifications --------------------------- *)
ArrayImages == {Img(8, 8, RInt(1), Origin, MaxGood, FALSE)}
\* (df_image_data, df_masks) and (template, px_mm_ratio_ref) of an array call
ArrayFrames ==
    {<<NoData, NoFrame>>, <<ImageData("a", Absent, Absent), <<OtherRow>>>>,
     <<ImageData("a", Some(25), Absent), <<OtherRow>>>>}
ArrayReference == {<<NoImage, None>>, <<Tpl(2, 4), None>>, <<Tpl(2, 4), Some(25)>>}
Next ==
    \/ \E c \in DOMAIN objs, ow \in BOOLEAN, eq \in BOOLEAN,
          mm \in MinMatchesSet, rs \in ResizeSet :
          CallContainer(c, ow, eq, mm, rs)
    \/ \E img \in ArrayImages, fr \in ArrayFrames, eq \in BOOLEAN, rf \in ArrayReference :
          CallArray(img, fr[1], fr[2], FALSE, eq, MaxGood, RInt(1), rf[1], rf[2])
    \/ CheckInfo
    \/ Resize
    \/ Match
    \/ Detect
    \/ NotFound
    \/ Equalize
    \/ Return

Spec == Init /\ [][Next]_vars

\* two containers of one project, watched by an observer
TwoImages ==
    {Img(8, 8, RInt(2), Origin, MaxGood, FALSE), Img(4, 4, RInt(1), Origin, MaxGood, TRUE),
     Img(8, 8, RInt(1), Origin, 0, FALSE)}
TwoContainers ==
    {Container(i, ImageData("img", Absent, Absent), Some(25), Tpl(2, 4), NoFrame, Absent) :
        i \in TwoImages}
InitTwo ==
    /\ objs \in [{1, 2} -> TwoContainers]
    /\ pre = objs[1]
    /\ watch = TRUE
    /\ InitCall
NextTwo ==
    \/ \E c \in DOMAIN objs, ow \in BOOLEAN, eq \in BOOLEAN, rs \in {Half, RInt(1)} :
          CallContainer(c, ow, eq, 1, rs)
    \/ CheckInfo
    \/ Resize
    \/ Match
    \/ Detect
    \/ NotFound
    \/ Equalize
    \/ Return
SpecTwo == InitTwo /\ [][NextTwo]_vars

(* ------------------------------- claims ------------------------------- *)
Over == pc \in {"done", "raised"}
\* the masks the call started from
LoadedMasks == IF pre.df_masks = NoFrame THEN EmptyMasks ELSE pre.df_masks
\* matching has run and counted fewer good matches than min_matches
TooFewMatches ==
    /\ pc \in {"decide", "after", "return", "done", "raised"}
    /\ "features" \in steps /\ exc # "cv2.error"
    /\ good < args.min_matches
Decided == TooFewMatches /\ pc # "decide"

\* C1: when detection was attempted and fewer than min_matches good matches
\* were found, the detected ratio of the call is None and the masks are the
\* ones the call started from; a container that the call returns to carries
\* None as its detected ratio and the masks it had.
C1_NotFoundIsNone ==
    Decided =>
        /\ detected_px_mm_ratio = None
        /\ df_masks = LoadedMasks
        /\ (pc = "done" /\ kind = "container" =>
                /\ objs[cid].reference_detected_px_mm_ratio = None
                /\ objs[cid].df_masks = LoadedMasks)
\* a container that carried a number from an earlier detection is not found now
C1_Witness ==
    /\ Decided /\ pc = "done" /\ kind = "container"
    /\ IsVal(pre.reference_detected_px_mm_ratio)
    /\ HasReference(pre.df_masks)

\* C2: a call that finds fewer than min_matches good matches never ends in
\* an exception, whatever the options.
C2_NotFoundNeverRaises == TooFewMatches => pc # "raised"

\* C3: the equalization step runs only when equalize was requested and this
\* call has detected the reference, so that its rect_new exists.
C3_EqualizeOnlyAfterDetection ==
    "equalize" \in steps => args.equalize /\ "detect" \in steps /\ rect_new # <<>>

\* C4: the polygon of a detected reference has 5 points: the template corners
\* (0,0), (0,h), (w,h), (w,0), mapped to where the card lies in the target
\* image at full resolution (as whole pixels), in that order, and the first
\* point again.
CardAt(img, x, y) ==
    <<Trunc(RAdd(RMul(img.k, RInt(x)), img.pos[1])),
      Trunc(RAdd(RMul(img.k, RInt(y)), img.pos[2]))>>
C4_PolygonClosed ==
    "detect" \in steps =>
        LET row == df_masks[Len(df_masks)]
            poly == row.coords[1]
            h == template_image.h
            w == template_image.w
        IN  /\ row.mask = "reference" /\ Len(row.coords) = 1
            /\ Len(poly) = 5
            /\ poly[1] = CardAt(pre.image, 0, 0)
            /\ poly[2] = CardAt(pre.image, 0, h)
            /\ poly[3] = CardAt(pre.image, w, h)
            /\ poly[4] = CardAt(pre.image, w, 0)
            /\ poly[5] = poly[1]
C4_Witness ==
    /\ "detect" \in steps /\ pc = "done" /\ resize_factor = <<1, 4>>
    /\ pre.image.pos = Offset
    /\ Cardinality({rect_new[i] : i \in 1..4}) = 4

\* C5, as stated: a target that shows the template at scale k is detected at
\* round(k * template_px_mm_ratio, 1), for every resize factor.
ScaledRatio == Some(RoundHalfEven(RMul(pre.image.k, RInt(template_px_mm_ratio.v))))
C5_ScaledRatio == "detect" \in steps => detected_px_mm_ratio = ScaledRatio
\* C5, amended: the same, when the scaled template has whole-pixel sides
\* (k * w and k * h are integers); the corners are cut to whole pixels before
\* the diameters are compared.
IsWhole(p) == p[2] = 1
WholeSides ==
    /\ IsWhole(RMul(pre.image.k, RInt(template_image.w)))
    /\ IsWhole(RMul(pre.image.k, RInt(template_image.h)))
C5_ScaledRatioWholePixels ==
    "detect" \in steps /\ WholeSides => detected_px_mm_ratio = ScaledRatio
C5_Witness ==
    /\ "detect" \in steps /\ WholeSides /\ pc = "done"
    /\ pre.image.k = Half /\ resize_factor = <<1, 4>>
    /\ detected_px_mm_ratio = Some(12)

\* C6: the resize factor is 0.5 exactly when the mean of the target's height
\* and width exceeds 5000 and resize = 1, and the caller's resize otherwise.
Automatic == pre.image.h + pre.image.w > 10000 /\ args.resize = RInt(1)
ResizeDone == "resize" \in steps /\ "features" \in steps
FactorRule == resize_factor = IF Automatic THEN <<1, 2>> ELSE args.resize
TargetResized ==
    /\ image.h = RoundHalfEven(RMul(RInt(pre.image.h), resize_factor))
    /\ image.w = RoundHalfEven(RMul(RInt(pre.image.w), resize_factor))
\* C6, as stated: the automatic factor is applied to the template as well.
C6_ResizeBoth ==
    ResizeDone =>
        /\ FactorRule /\ TargetResized
        /\ (Automatic =>
               /\ template_image.h = RoundHalfEven(RMul(RInt(pre.reference_template_image.h), Half))
               /\ template_image.w = RoundHalfEven(RMul(RInt(pre.reference_template_image.w), Half)))
\* C6, amended: the factor is applied to the target image only; the template
\* is matched at its own size.
C6_ResizeTargetOnly ==
    /\ ("resize" \in steps => FactorRule)
    /\ (ResizeDone => TargetResized /\ template_image = pre.reference_template_image)
C6_Witness ==
    /\ ResizeDone /\ Automatic /\ pc = "done"
    /\ image.h = 2501 /\ template_image = Tpl(2, 4)

\* C7: a call with an empty template or target, a non-positive template
\* ratio or a non-positive resize factor ends in an invalid-input error
\* before it resizes, extracts features or matches, and yields no ratio.
InvalidInput ==
    \/ pre.image.h = 0 \/ pre.image.w = 0
    \/ (template_image # NoImage /\ (template_image.h = 0 \/ template_image.w = 0))
    \/ (IsVal(template_px_mm_ratio) /\ template_px_mm_ratio.v <= 0)
    \/ ~RPos(args.resize)
C7_InvalidInputFailsFast ==
    pc # "idle" /\ InvalidInput =>
        /\ steps \cap {"resize", "features", "detect", "notfound"} = {}
        /\ ~IsVal(detected_px_mm_ratio)
        /\ pc # "done"
        /\ (pc = "raised" => exc = "InvalidInputError")

\* C8: an array call that passes a template image and the template's px-mm
\* ratio runs the detection instead of aborting for missing information.
C8_ArrayWithTemplateDetects ==
    /\ kind = "ndarray" /\ args.template # NoImage /\ args.px_mm_ratio_ref # None
    /\ pc \in {"after", "return", "done", "raised"}
    => "resize" \in steps

\* C10: for a container that already carries a detected ratio, overwrite=False
\* runs no detection and leaves ratio, masks and image as they were, and
\* overwrite=True detects again and leaves the new result (None if not found)
\* as the container's detected ratio.
C10_Overwrite ==
    /\ kind = "container" /\ pre.reference_detected_px_mm_ratio # Absent
    /\ Over /\ exc # "cv2.error"
    => IF args.overwrite
       THEN /\ "features" \in steps
            /\ objs[cid].reference_detected_px_mm_ratio = detected_px_mm_ratio
       ELSE /\ "resize" \notin steps
            /\ objs[cid].reference_detected_px_mm_ratio = pre.reference_detected_px_mm_ratio
            /\ objs[cid].df_masks = pre.df_masks
            /\ objs[cid].image = pre.image

\* C9, as stated: two calls with the same template, ratio, target image and
\* options that return, return the same detected ratio and the same reference
\* polygon in the masks, whatever earlier calls left behind.
SameInputs(a, b) ==
    /\ a.kind = b.kind /\ a.template = b.template
    /\ a.template_ratio = b.template_ratio
    /\ a.target = b.target /\ a.args = b.args
C9_SameInputsSameOutputs ==
    \A a \in hist, b \in hist :
        SameInputs(a, b) /\ a.outcome = "returned" /\ b.outcome = "returned" =>
            a.ratio = b.ratio /\ a.masks = b.masks
\* C9, amended: the same for two calls that both run the detection (the
\* container carries no detected ratio yet, or overwrite=True): they end
\* alike with the same detected ratio and the same polygon found by the call.
Detecting(a) == a.fresh \/ a.args.overwrite
C9_DetectingCallsAgree ==
    \A a \in hist, b \in hist :
        SameInputs(a, b) /\ Detecting(a) /\ Detecting(b) =>
            a.outcome = b.outcome /\ a.ratio = b.ratio /\ a.polygon = b.polygon
C9_Witness ==
    \E a \in hist, b \in hist :
        /\ SameInputs(a, b) /\ a.obj # b.obj
        /\ ~a.fresh /\ a.args.overwrite /\ b.fresh
        /\ a.outcome = "returned" /\ IsVal(a.ratio) /\ a.polygon # <<>>

\* C11: after any sequence of calls the masks of a container hold at most one
\* "reference" row, with include = False; a finished call leaves the polygon
\* it detected in that row, in place of an earlier one, and a call that
\* detected nothing leaves the row of the last detection as it was.
ReferenceRows(masks) == SelectSeq(masks, LAMBDA row : row.mask = "reference")
OneExcludedReference(masks) ==
    LET rows == ReferenceRows(masks)
    IN  Len(rows) <= 1 /\ \A i \in 1..Len(rows) : rows[i].include = FALSE
C11_OneReferenceRow ==
    /\ \A c \in DOMAIN objs : OneExcludedReference(objs[c].df_masks)
    /\ OneExcludedReference(df_masks)
    /\ (kind = "container" /\ Over =>
           ReferenceRows(objs[cid].df_masks) =
               IF "detect" \in steps
               THEN <<[mask |-> "reference", include |-> FALSE,
                       coords |-> <<Append(rect_new, rect_new[1])>>]>>
               ELSE ReferenceRows(pre.df_masks))
\* a second detection replaces the polygon of the first, other masks stay
C11_Witness ==
    /\ kind = "container" /\ pc = "done" /\ "detect" \in steps
    /\ HasReference(pre.df_masks)
    /\ ReferenceRows(pre.df_masks) # ReferenceRows(objs[cid].df_masks)
    /\ Len(objs[cid].df_masks) = 2

\* C12: when a call that attempted detection returns, the column
\* current_px_mm_ratio of df_image_data holds the ratio this call detected,
\* None included when the reference was not found.
AttemptedAndReturned == pc = "done" /\ "features" \in steps
C12_CurrentRatioIsDetected ==
    AttemptedAndReturned => df_image_data.current_px_mm_ratio = detected_px_mm_ratio

\* C13: a call whose template image or template ratio is missing aborts
\* without detecting and without raising (here already without equalize):
\* an array gets back its image data, masks and image, a container keeps its
\* detected ratio, masks and image.
Aborted ==
    /\ "check" \in steps /\ pc # "after" /\ ~args.equalize
    /\ (template_px_mm_ratio = None \/ template_image = NoImage)
C13_MissingInfoAborts ==
    Aborted =>
        /\ pc # "raised"
        /\ steps \cap {"resize", "features", "detect", "notfound"} = {}
        /\ (pc = "done" /\ kind = "ndarray" =>
               /\ ret.image = pre.image
               /\ ret.df_masks = LoadedMasks
               /\ (pre.df_image_data # NoData => ret.df_image_data = pre.df_image_data))
        /\ (pc = "done" /\ kind = "container" =>
               /\ objs[cid].reference_detected_px_mm_ratio = pre.reference_detected_px_mm_ratio
               /\ objs[cid].image = pre.image
               /\ objs[cid].df_masks = LoadedMasks)

\* C14: the body of "while True" is passed once: each of the paths leaves it
\* by break in its first pass, and a call that has left the loop goes on to
\* the return section.
LoopSinglePass == iter <= 1
C14_SinglePassToReturn ==
    /\ LoopSinglePass
    /\ (pc \in {"done", "raised"} /\ exc # "cv2.error" => "return" \in steps)
====
